---- MODULE Spec2Model ----
(***************************************************************************)
(* Model of the authentication module of keytchensApp:                     *)
(*   AuthValidator, AuthService (login / logout / isAuthenticated /        *)
(*   getToken), AsyncStorageTokenStorage, AsyncStorageUserStorage and      *)
(*   HttpClient (post / get / put with its timer).                         *)
(*                                                                         *)
(* Specifications.  Spec: calls of AuthService that may overlap.  SpecSeq: *)
(* the same calls, serialised; SpecSeqFair adds that the stores settle.    *)
(* SpecValidator: the validator on bounded requests.  SpecHttp: the calls  *)
(* of HttpClient.                                                          *)
(*                                                                         *)
(* Conventions.  A JavaScript string is a sequence of pieces (characters   *)
(* for e-mails and passwords); the empty string is <<>>.  A nullable value *)
(* is `null` or Some(v).  Messages of errors are TLA+ strings.             *)
(***************************************************************************)
EXTENDS Integers, Sequences, FiniteSets, TLC

(* ------------------------------ bounds -------------------------------- *)

\* Date.now() ranges over 0..MaxTime
MaxTime == 1
\* number of service calls that may be in flight at the same time
MaxCalls == 2

Calls == 1..MaxCalls

(* --------------------------- nullable values -------------------------- *)

null == <<>>
Some(v) == <<v>>
Unwrap(o) == o[1]

\* JavaScript truthiness of a nullable string: null and "" are falsy
Boolean(o) == o /= null /\ Unwrap(o) /= <<>>

\* JavaScript !s for a string
IsEmptyString(s) == s = <<>>

(* ------------------------------ auth.types ---------------------------- *)

INVALID_CREDENTIALS == "INVALID_CREDENTIALS"
NETWORK_ERROR == "NETWORK_ERROR"
UNKNOWN_ERROR == "UNKNOWN_ERROR"
VALIDATION_ERROR == "VALIDATION_ERROR"

AuthErrorType == {INVALID_CREDENTIALS, NETWORK_ERROR, UNKNOWN_ERROR, VALIDATION_ERROR}

\* typeof error === 'object' && error !== null && 'type' in error && 'message' in error
isAuthError(error) == {"type", "message"} \subseteq DOMAIN error

(* ------------------------------ AuthValidator ------------------------- *)

IsSpaceOrAt(ch) == ch \in {" ", "@"}

\* [^\s@]+ : a non-empty run without whitespace and without '@'
Run(s, from, to) ==
    /\ from <= to
    /\ \A i \in from..to : ~IsSpaceOrAt(s[i])

\* /^[^\s@]+@[^\s@]+\.[^\s@]+$/.test(s)
EMAIL_REGEX_LongTld(s) ==
    \E at \in 1..Len(s) : \E dot \in 1..Len(s) :
        /\ s[at] = "@"
        /\ s[dot] = "."
        /\ Run(s, 1, at - 1)
        /\ Run(s, at + 1, dot - 1)
        /\ Run(s, dot + 2, Len(s))

EMAIL_REGEX(s) ==
    \E at \in 1..Len(s) : \E dot \in 1..Len(s) :
        /\ s[at] = "@"
        /\ s[dot] = "."
        /\ Run(s, 1, at - 1)
        /\ Run(s, at + 1, dot - 1)
        /\ Run(s, dot + 1, Len(s))

validateLoginRequest_FormatFirst(request) ==
    IF ~EMAIL_REGEX(request.email)
    THEN [type |-> VALIDATION_ERROR, message |-> "Invalid email format"]
    ELSE IF IsEmptyString(request.email) \/ IsEmptyString(request.password)
    THEN [type |-> VALIDATION_ERROR, message |-> "Email and password are required"]
    ELSE IF Len(request.password) < 6
    THEN [type |-> VALIDATION_ERROR, message |-> "Password must be at least 6 characters"]
    ELSE null

validateLoginRequest(request) ==
    IF IsEmptyString(request.email) \/ IsEmptyString(request.password)
    THEN [type |-> VALIDATION_ERROR, message |-> "Email and password are required"]
    ELSE IF ~EMAIL_REGEX(request.email)
    THEN [type |-> VALIDATION_ERROR, message |-> "Invalid email format"]
    ELSE IF Len(request.password) < 6
    THEN [type |-> VALIDATION_ERROR, message |-> "Password must be at least 6 characters"]
    ELSE null

(* ------------------------------ HttpClient ---------------------------- *)

Resolved(v) == [status |-> "resolved", value |-> v]
Rejected(e) == [status |-> "rejected", error |-> e]

\* API_ENDPOINTS.login
LoginEndpoint == <<"/auth/login">>

createError_Only401(statusCode, statusText) ==
    IF statusCode = 401
    THEN [type |-> INVALID_CREDENTIALS, message |-> "Invalid email or password",
          statusCode |-> statusCode]
    ELSE [type |-> UNKNOWN_ERROR, message |-> statusText, statusCode |-> statusCode]

createError(statusCode, statusText) ==
    IF statusCode = 401 \/ statusCode = 403
    THEN [type |-> INVALID_CREDENTIALS, message |-> "Invalid email or password",
          statusCode |-> statusCode]
    ELSE [type |-> UNKNOWN_ERROR, message |-> statusText, statusCode |-> statusCode]

\* error is the failure caught in request: an AuthError or a JavaScript
\* Error, the latter a record with the fields name and message
handleFetchError_TypeErrorUnexpected(error) ==
    IF isAuthError(error) THEN error
    ELSE IF error.name = "AbortError"
    THEN [type |-> NETWORK_ERROR, message |-> "Request timeout. Please try again."]
    ELSE [type |-> UNKNOWN_ERROR, message |-> "An unexpected error occurred"]

handleFetchError(error) ==
    IF isAuthError(error) THEN error
    ELSE IF error.name = "TypeError"
    THEN [type |-> NETWORK_ERROR, message |-> "Network error. Please check your connection."]
    ELSE IF error.name = "AbortError"
    THEN [type |-> NETWORK_ERROR, message |-> "Request timeout. Please try again."]
    ELSE [type |-> UNKNOWN_ERROR, message |-> "An unexpected error occurred"]

\* response.ok
ResponseOk(status) == status \in 200..299

\* The settlement of request for one outcome f of fetch: f.kind = "throw"
\* when fetch rejects with f.error, f.kind = "response" when it resolves with
\* a response, whose body is f.json (null when response.json() throws)
request_ResolvesUndecoded(f) ==
    IF f.kind = "throw" THEN Rejected(handleFetchError(f.error))
    ELSE IF ~ResponseOk(f.status)
    THEN Rejected(handleFetchError(createError(f.status, f.statusText)))
    ELSE Resolved(f.json)

request(f) ==
    IF f.kind = "throw" THEN Rejected(handleFetchError(f.error))
    ELSE IF ~ResponseOk(f.status)
    THEN Rejected(handleFetchError(createError(f.status, f.statusText)))
    ELSE IF f.json = null
    THEN Rejected(handleFetchError([name |-> "SyntaxError", message |-> "JSON Parse error"]))
    ELSE Resolved(Unwrap(f.json))

post(f) == request(f)
get(f) == request(f)
put(f) == request(f)

\* `${this.baseUrl}${url}`
RequestUrl_PathOnly(baseUrl, url) == url

RequestUrl(baseUrl, url) == baseUrl \o url

\* The timeout of the constructor, in milliseconds
DefaultTimeout == 10000

(* ------------------------------ storage ------------------------------- *)

TOKEN_KEY == "@keytchens_auth_token"
USER_KEY == "@keytchens_user"
Keys == {TOKEN_KEY, USER_KEY}

\* AsyncStorage: one string, or nothing, per key
setItem(store, key, value) == [store EXCEPT ![key] = Some(value)]
getItem(store, key) == store[key]
removeItem(store, key) == [store EXCEPT ![key] = null]

\* JSON.stringify of a User and JSON.parse of the result
JSONstringify(user) ==
    <<"{", user.id, user.email, user.roles, user.lang,
      IF user.enabled THEN "true" ELSE "false", "}">>
JSONparse(value) ==
    [id |-> value[2], email |-> value[3], roles |-> value[4], lang |-> value[5],
     enabled |-> (value[6] = "true")]

\* The errors the two stores throw when AsyncStorage fails
StoreTokenError == [name |-> "Error", message |-> "Failed to store authentication token"]
StoreUserError == [name |-> "Error", message |-> "Failed to store user"]
RemoveTokenError == [name |-> "Error", message |-> "Failed to clear authentication token"]

\* AsyncStorageTokenStorage and AsyncStorageUserStorage, when AsyncStorage succeeds

\* variant of setToken: the slot keeps the token it already holds
setToken_KeepsFirst(store, token) ==
    IF getItem(store, TOKEN_KEY) = null THEN setItem(store, TOKEN_KEY, token) ELSE store

setToken(store, token) == setItem(store, TOKEN_KEY, token)
getToken(store) == getItem(store, TOKEN_KEY)
removeToken(store) == removeItem(store, TOKEN_KEY)
\* variant of setUser: the slot keeps the user it already holds
setUser_KeepsFirst(store, user) ==
    IF getItem(store, USER_KEY) = null
    THEN setItem(store, USER_KEY, JSONstringify(user)) ELSE store

setUser(store, user) == setItem(store, USER_KEY, JSONstringify(user))
\* JSON.parse(value) does not throw
Decodable(value) == Len(value) = 7

\* value ? JSON.parse(value) : null, and null when JSON.parse throws
getUser(store) ==
    IF ~Boolean(getItem(store, USER_KEY)) THEN null
    ELSE IF ~Decodable(Unwrap(getItem(store, USER_KEY))) THEN null
    ELSE Some(JSONparse(Unwrap(getItem(store, USER_KEY))))
removeUser(store) == removeItem(store, USER_KEY)

RemoveUserError == [name |-> "Error", message |-> "Failed to remove user"]

\* The methods of the two stores with their try / catch: ok tells whether the
\* operation of AsyncStorage succeeded.  The writers give the store afterwards
\* and the settlement, the readers the settlement.
setTokenCall(store, token, ok) ==
    IF ok THEN [store |-> setToken(store, token), outcome |-> Resolved(null)]
    ELSE [store |-> store, outcome |-> Rejected(StoreTokenError)]

getTokenCall(store, ok) == Resolved(IF ok THEN getToken(store) ELSE null)

removeTokenCall(store, ok) ==
    IF ok THEN [store |-> removeToken(store), outcome |-> Resolved(null)]
    ELSE [store |-> store, outcome |-> Rejected(RemoveTokenError)]

setUserCall(store, user, ok) ==
    IF ok THEN [store |-> setUser(store, user), outcome |-> Resolved(null)]
    ELSE [store |-> store, outcome |-> Rejected(StoreUserError)]

getUserCall_Propagates(store, ok) ==
    IF ~ok THEN Rejected([name |-> "Error", message |-> "read failed"])
    ELSE IF Boolean(getItem(store, USER_KEY)) /\ ~Decodable(Unwrap(getItem(store, USER_KEY)))
    THEN Rejected([name |-> "SyntaxError", message |-> "JSON Parse error"])
    ELSE Resolved(getUser(store))

getUserCall(store, ok) == Resolved(IF ok THEN getUser(store) ELSE null)

removeUserCall_Partial(store, ok) ==
    [store |-> removeUser(store),
     outcome |-> IF ok THEN Resolved(null) ELSE Rejected(RemoveUserError)]

removeUserCall(store, ok) ==
    IF ok THEN [store |-> removeUser(store), outcome |-> Resolved(null)]
    ELSE [store |-> store, outcome |-> Rejected(RemoveUserError)]

(* ------------------------------ AuthService --------------------------- *)

\* String(Date.now())
Digits == <<"0", "1", "2", "3", "4", "5", "6", "7", "8", "9">>
NumberToString(n) == <<Digits[n + 1]>>

\* The response login builds in place of the commented-out httpClient.post
MockApiResponse(credentials, t) ==
    [data |-> Some([loginV2 |-> Some(
        [token |-> Some(<<"mock_token_">> \o NumberToString(t)),
         user |-> Some([uuid |-> Some(<<"mock_uuid_123">>),
                        email |-> Some(credentials.email),
                        roles |-> Some(<< <<"user">> >>),
                        lang |-> Some(<<"fr-FR">>),
                        enabled |-> Some(TRUE)])])])]

\* apiResponse?.data?.loginV2
LoginData(apiResponse) ==
    IF apiResponse.data = null THEN null ELSE Unwrap(apiResponse.data).loginV2

\* !loginData?.token || !loginData.user?.uuid || !loginData.user.email
InvalidLoginData(loginData) ==
    \/ loginData = null
    \/ ~Boolean(Unwrap(loginData).token)
    \/ Unwrap(loginData).user = null
    \/ ~Boolean(Unwrap(Unwrap(loginData).user).uuid)
    \/ ~Boolean(Unwrap(Unwrap(loginData).user).email)

InvalidLoginResponse == [type |-> UNKNOWN_ERROR, message |-> "Invalid login response"]

\* a ?? b
Coalesce(a, b) == IF a = null THEN b ELSE Unwrap(a)

MappedUser(u) ==
    [id |-> Unwrap(u.uuid),
     email |-> Unwrap(u.email),
     roles |-> Coalesce(u.roles, <<>>),
     lang |-> Coalesce(u.lang, <<"fr-FR">>),
     enabled |-> (u.enabled /= null /\ Unwrap(u.enabled))]

LoginResponse(loginData) ==
    [user |-> MappedUser(Unwrap(loginData.user)), token |-> Unwrap(loginData.token)]

\* variant of loginSync: the validation error is not thrown
loginSync_IgnoresValidation(credentials, t) ==
    LET loginData == LoginData(MockApiResponse(credentials, t))
    IN  IF InvalidLoginData(loginData) THEN Rejected(InvalidLoginResponse)
        ELSE [status |-> "persist", response |-> LoginResponse(Unwrap(loginData))]

\* login up to its first await: either it throws (status "rejected") or it
\* has built the response and calls tokenStorage.setToken (status "persist")
loginSync(credentials, t) ==
    LET validationError == validateLoginRequest(credentials)
        loginData == LoginData(MockApiResponse(credentials, t))
    IN  IF validationError /= null THEN Rejected(validationError)
        ELSE IF InvalidLoginData(loginData) THEN Rejected(InvalidLoginResponse)
        ELSE [status |-> "persist", response |-> LoginResponse(Unwrap(loginData))]

\* Boolean(token) of isAuthenticated
isAuthenticatedValue(token) == Boolean(token)

(* ------------------------------ inputs -------------------------------- *)

ValidEmailA == <<"a", "@", "b", ".", "c">>
ValidEmailB == <<"b", "@", "b", ".", "c">>
LongPassword == <<"p", "a", "s", "s", "w", "d">>
ShortPassword == <<"s", "h", "o", "r", "t">>

OtherPassword == <<"p", "a", "s", "s", "w", "d", "2">>

CredentialsOk == [email |-> ValidEmailA, password |-> LongPassword]
CredentialsMalformed == [email |-> ValidEmailA, password |-> OtherPassword]
CredentialsOffline == [email |-> ValidEmailB, password |-> LongPassword]
CredentialsPartial == [email |-> ValidEmailB, password |-> OtherPassword]

\* The credentials submitted to login
Credentials ==
    { [email |-> <<>>, password |-> <<>>],
      [email |-> <<"a", "b", ".", "c">>, password |-> LongPassword],
      [email |-> ValidEmailA, password |-> ShortPassword],
      CredentialsOk, CredentialsMalformed, CredentialsOffline, CredentialsPartial }

\* The envelope of the remote endpoint, as in the service's tests
Envelope(token, user) == [data |-> Some([loginV2 |-> Some([token |-> token, user |-> user])])]
RemoteUser ==
    Some([uuid |-> Some(<<"u1">>), email |-> Some(ValidEmailA),
          roles |-> Some(<< <<"ROLE_ACCOUNTANT">> >>), lang |-> Some(<<"en">>),
          enabled |-> Some(TRUE)])

\* A user of the remote endpoint without roles, lang and enabled
PartialRemoteUser ==
    Some([uuid |-> Some(<<"u2">>), email |-> Some(ValidEmailB),
          roles |-> null, lang |-> null, enabled |-> null])

\* The remote endpoint: the outcome fetch has for POST <base>/auth/login with
\* the body credentials.  It answers CredentialsOk with a complete envelope
\* and CredentialsMalformed with an envelope without token, CredentialsPartial
\* with an envelope whose user lacks roles, lang and enabled, and it cannot
\* be reached when CredentialsOffline are sent.
RemoteFetch(credentials) ==
    IF credentials = CredentialsOffline
    THEN [kind |-> "throw", error |-> [name |-> "TypeError", message |-> "Network error"]]
    ELSE [kind |-> "response", status |-> 200, statusText |-> "OK",
          json |-> Some(Envelope(IF credentials = CredentialsMalformed THEN null
                                 ELSE Some(<<"tok1">>),
                                 IF credentials = CredentialsPartial
                                 THEN PartialRemoteUser ELSE RemoteUser))]

\* The tokens an external writer puts into the token slot
SeedTokens == { <<>>, <<"test-token-123">> }

(* ------------------------------ state --------------------------------- *)

VARIABLES
    storage,        \* AsyncStorage: key -> null or Some(string)
    userStorage,    \* whether AuthService was constructed with a user storage
    now,            \* the last value Date.now() returned
    calls,          \* the calls of the service in flight: slot -> its record
    last,           \* the record of the call that settled last
    overlapped,     \* history: two calls have been in flight at the same time
    storageFailed,  \* history: an AsyncStorage operation has failed
    lastEvent,      \* history: the last of login resolved / logout resolved / seed
    lastLogin,      \* history: the response of the last login that resolved
    logins,         \* history: number of logins that resolved, up to LoginsCap
    ui              \* the state of App and of LoginPage

vars == <<storage, userStorage, now, calls, last, overlapped, storageFailed,
          lastEvent, lastLogin, logins, ui>>

\* the counter of resolved logins stops at LoginsCap
LoginsCap == 2

Idle == [op |-> "none", pc |-> "idle"]

\* App as it is first rendered, with LoginPage as it is mounted:
\* useState('splash'), useState(false), useState(null); alert is the message
\* of the last Alert.alert and lastAction the last thing App or LoginPage did
Mounted ==
    [navigationState |-> "splash", isLoading |-> FALSE, error |-> null,
     alert |-> null, lastAction |-> "mount"]

InFlight(c) == calls[c].pc /= "idle"
Quiescent == \A c \in Calls : ~InFlight(c)

Init ==
    /\ storage = [k \in Keys |-> null]
    /\ userStorage \in BOOLEAN
    /\ now = 0
    /\ calls = [c \in Calls |-> Idle]
    /\ last = Idle
    /\ overlapped = FALSE
    /\ storageFailed = FALSE
    /\ lastEvent = "none"
    /\ lastLogin = null
    /\ logins = 0
    /\ ui = Mounted

\* A call starts in slot c, the first free slot
Begin(c) ==
    /\ calls[c].pc = "idle"
    /\ \A d \in Calls : d < c => InFlight(d)
    /\ overlapped' = (overlapped \/ ~Quiescent)

\* An external writer stores a token (tokenStorage.setToken in the tests)
Seed(token) ==
    /\ storage' = setToken(storage, token)
    /\ overlapped' = (overlapped \/ ~Quiescent)
    /\ lastEvent' = "seed"
    /\ UNCHANGED <<userStorage, now, calls, last, storageFailed, lastLogin, logins>>

(* ------------------------------ login --------------------------------- *)

\* The record of a login that has settled
LoginSettled(call, outcome) ==
    [op |-> "login", pc |-> "done", credentials |-> call.credentials,
     posts |-> call.posts, wrote |-> call.wrote, outcome |-> outcome]

\* login(credentials) runs to its first await.  t is the value Date.now()
\* returns, not less than the value it returned before.  posts counts the
\* calls of httpClient.post, which the code has commented out.
LoginStart(c, credentials, t) ==
    /\ Begin(c)
    /\ t >= now
    /\ now' = t
    /\ LET r == loginSync(credentials, t)
           call == [op |-> "login", credentials |-> credentials, posts |-> 0, wrote |-> {}]
       IN  IF r.status = "rejected"
           THEN /\ last' = LoginSettled(call, r)
                /\ UNCHANGED calls
           ELSE /\ calls' = [calls EXCEPT ![c] =
                       call @@ [pc |-> "setToken", response |-> r.response]]
                /\ UNCHANGED last
    /\ UNCHANGED <<storage, userStorage, storageFailed, lastEvent,
                   lastLogin, logins>>

\* login returns response
LoginResolves(c, call) ==
    /\ calls' = [calls EXCEPT ![c] = Idle]
    /\ last' = LoginSettled(call, Resolved(call.response))
    /\ lastEvent' = "login"
    /\ lastLogin' = Some(call.response)
    /\ logins' = IF logins < LoginsCap THEN logins + 1 ELSE logins

\* login throws the error of a store
LoginRejects_Swallows(c, error) ==
    /\ calls' = [calls EXCEPT ![c] = Idle]
    /\ last' = LoginSettled(calls[c], Resolved(calls[c].response))
    /\ UNCHANGED <<storage, lastEvent, lastLogin, logins>>

LoginRejects(c, error) ==
    /\ calls' = [calls EXCEPT ![c] = Idle]
    /\ last' = LoginSettled(calls[c], Rejected(error))
    /\ UNCHANGED <<storage, lastEvent, lastLogin, logins>>

\* await this.tokenStorage.setToken(response.token) completes
LoginSetToken_UserAnyway(c) ==
    /\ calls[c].pc = "setToken"
    /\ \E ok \in BOOLEAN :
        /\ storageFailed' = (storageFailed \/ ~ok)
        /\ storage' = IF ok THEN setToken(storage, calls[c].response.token) ELSE storage
        /\ calls' = [calls EXCEPT ![c] =
              [calls[c] EXCEPT !.wrote = IF ok THEN @ \cup {TOKEN_KEY} ELSE @,
                               !.pc = "setUser"]]
        /\ UNCHANGED <<last, lastEvent, lastLogin, logins>>
    /\ UNCHANGED <<userStorage, now, overlapped>>

LoginSetToken(c) ==
    /\ calls[c].pc = "setToken"
    /\ \E ok \in BOOLEAN :
        /\ storageFailed' = (storageFailed \/ ~ok)
        /\ IF ok
           THEN /\ storage' = setToken(storage, calls[c].response.token)
                /\ LET call == [calls[c] EXCEPT !.wrote = @ \cup {TOKEN_KEY}]
                   IN  IF userStorage
                       THEN /\ calls' = [calls EXCEPT ![c] = [call EXCEPT !.pc = "setUser"]]
                            /\ UNCHANGED <<last, lastEvent, lastLogin, logins>>
                       ELSE LoginResolves(c, call)
           ELSE LoginRejects(c, StoreTokenError)
    /\ UNCHANGED <<userStorage, now, overlapped>>

\* await this.userStorage.setUser(response.user) completes
LoginSetUser_NeverCompletes(c) ==
    /\ calls[c].pc = "setUser"
    /\ UNCHANGED vars

LoginSetUser(c) ==
    /\ calls[c].pc = "setUser"
    /\ \E ok \in BOOLEAN :
        /\ storageFailed' = (storageFailed \/ ~ok)
        /\ IF ok
           THEN /\ storage' = setUser(storage, calls[c].response.user)
                /\ LoginResolves(c, [calls[c] EXCEPT !.wrote = @ \cup {USER_KEY}])
           ELSE LoginRejects(c, StoreUserError)
    /\ UNCHANGED <<userStorage, now, overlapped>>

(* ------------------------------ logout -------------------------------- *)

\* logout() calls tokenStorage.removeToken
LogoutStart(c) ==
    /\ Begin(c)
    /\ calls' = [calls EXCEPT ![c] = [op |-> "logout", pc |-> "removeToken"]]
    /\ UNCHANGED <<storage, userStorage, now, last, storageFailed, lastEvent,
                   lastLogin, logins>>

\* await this.tokenStorage.removeToken() completes
LogoutRemoveToken(c) ==
    /\ calls[c].pc = "removeToken"
    /\ calls' = [calls EXCEPT ![c] = Idle]
    /\ \E ok \in BOOLEAN :
        /\ storageFailed' = (storageFailed \/ ~ok)
        /\ IF ok
           THEN /\ storage' = removeToken(storage)
                /\ last' = [op |-> "logout", pc |-> "done", outcome |-> Resolved(null)]
                /\ lastEvent' = "logout"
           ELSE /\ last' = [op |-> "logout", pc |-> "done",
                            outcome |-> Rejected(RemoveTokenError)]
                /\ UNCHANGED <<storage, lastEvent>>
    /\ UNCHANGED <<userStorage, now, overlapped, lastLogin, logins>>

(* ------------------------------ isAuthenticated ----------------------- *)

\* isAuthenticated() calls tokenStorage.getToken
IsAuthenticatedStart(c) ==
    /\ Begin(c)
    /\ calls' = [calls EXCEPT ![c] = [op |-> "isAuthenticated", pc |-> "getToken"]]
    /\ UNCHANGED <<storage, userStorage, now, last, storageFailed, lastEvent,
                   lastLogin, logins>>

\* await this.tokenStorage.getToken() completes: the stored value, or null
\* when AsyncStorage.getItem fails; token is the local of isAuthenticated
IsAuthenticatedGetToken(c) ==
    /\ calls[c].pc = "getToken"
    /\ calls' = [calls EXCEPT ![c] = Idle]
    /\ \E ok \in BOOLEAN :
        LET token == IF ok THEN getToken(storage) ELSE null
        IN  /\ storageFailed' = (storageFailed \/ ~ok)
            /\ last' = [op |-> "isAuthenticated", pc |-> "done", token |-> token,
                        outcome |-> Resolved(isAuthenticatedValue(token))]
    /\ UNCHANGED <<storage, userStorage, now, overlapped, lastEvent,
                   lastLogin, logins>>

(* ------------------------------ getToken ------------------------------ *)

\* What AuthService.getToken returns for the value token that
\* tokenStorage.getToken gave
getTokenValue_DropsEmpty(token) == IF Boolean(token) THEN token ELSE null

getTokenValue(token) == token

\* getToken() calls tokenStorage.getToken
GetTokenStart(c) ==
    /\ Begin(c)
    /\ calls' = [calls EXCEPT ![c] = [op |-> "getToken", pc |-> "read"]]
    /\ UNCHANGED <<storage, userStorage, now, last, storageFailed, lastEvent,
                   lastLogin, logins>>

\* tokenStorage.getToken() completes: the stored value, or null when
\* AsyncStorage.getItem fails; read is what the token store returned
GetTokenGetToken(c) ==
    /\ calls[c].pc = "read"
    /\ calls' = [calls EXCEPT ![c] = Idle]
    /\ \E ok \in BOOLEAN :
        LET token == IF ok THEN getToken(storage) ELSE null
        IN  /\ storageFailed' = (storageFailed \/ ~ok)
            /\ last' = [op |-> "getToken", pc |-> "done", read |-> token,
                        outcome |-> Resolved(getTokenValue(token))]
    /\ UNCHANGED <<storage, userStorage, now, overlapped, lastEvent,
                   lastLogin, logins>>

(* ------------------------------ store calls -------------------------- *)

\* The users given to setUser, and the values an external writer leaves in
\* the user slot: the empty string and a truncated document
Users == { MappedUser(Unwrap(RemoteUser)) }
RawUserValues == { <<>>, <<"{">> }

\* The record of a call of a store that has settled; before is AsyncStorage
\* when it was called and after when it settled
StoreSettled(op, ok, after, outcome) ==
    [op |-> op, pc |-> "done", before |-> storage, ok |-> ok, after |-> after,
     outcome |-> outcome]

\* A method of a store that writes is called and settles
StoreWrites(op, ok, result) ==
    /\ storage' = result.store
    /\ last' = StoreSettled(op, ok, result.store, result.outcome)
    /\ storageFailed' = (storageFailed \/ ~ok)
    /\ UNCHANGED <<userStorage, now, calls, overlapped, lastEvent, lastLogin, logins>>

\* A method of a store that reads is called and settles
StoreReads(op, ok, outcome) ==
    /\ last' = StoreSettled(op, ok, storage, outcome)
    /\ storageFailed' = (storageFailed \/ ~ok)
    /\ UNCHANGED <<storage, userStorage, now, calls, overlapped, lastEvent,
                   lastLogin, logins>>

TokenStorageSetToken(token, ok) == StoreWrites("tokenStorage.setToken", ok, setTokenCall(storage, token, ok))
TokenStorageGetToken(ok) == StoreReads("tokenStorage.getToken", ok, getTokenCall(storage, ok))
TokenStorageRemoveToken(ok) == StoreWrites("tokenStorage.removeToken", ok, removeTokenCall(storage, ok))
UserStorageSetUser(user, ok) == StoreWrites("userStorage.setUser", ok, setUserCall(storage, user, ok))
UserStorageGetUser(ok) == StoreReads("userStorage.getUser", ok, getUserCall(storage, ok))
UserStorageRemoveUser(ok) == StoreWrites("userStorage.removeUser", ok, removeUserCall(storage, ok))

\* An external writer leaves a raw value in the user slot
WriteRawUser(value) ==
    /\ storage' = setItem(storage, USER_KEY, value)
    /\ UNCHANGED <<userStorage, now, calls, last, overlapped, storageFailed,
                   lastEvent, lastLogin, logins>>

\* The two stores called directly, and the two calls of AuthService that
\* read the token store, one call at a time
NextStore ==
    \/ \E token \in SeedTokens, ok \in BOOLEAN : Quiescent /\ TokenStorageSetToken(token, ok) /\ UNCHANGED ui
    \/ \E ok \in BOOLEAN : Quiescent /\ TokenStorageGetToken(ok) /\ UNCHANGED ui
    \/ \E ok \in BOOLEAN : Quiescent /\ TokenStorageRemoveToken(ok) /\ UNCHANGED ui
    \/ \E user \in Users, ok \in BOOLEAN : Quiescent /\ UserStorageSetUser(user, ok) /\ UNCHANGED ui
    \/ \E ok \in BOOLEAN : Quiescent /\ UserStorageGetUser(ok) /\ UNCHANGED ui
    \/ \E ok \in BOOLEAN : Quiescent /\ UserStorageRemoveUser(ok) /\ UNCHANGED ui
    \/ \E value \in RawUserValues : Quiescent /\ WriteRawUser(value) /\ UNCHANGED ui
    \/ \E c \in Calls : Quiescent /\ IsAuthenticatedStart(c) /\ UNCHANGED ui
    \/ \E c \in Calls : IsAuthenticatedGetToken(c) /\ UNCHANGED ui
    \/ \E c \in Calls : Quiescent /\ GetTokenStart(c) /\ UNCHANGED ui
    \/ \E c \in Calls : GetTokenGetToken(c) /\ UNCHANGED ui

SpecStore == Init /\ [][NextStore]_vars

(* ------------------------------ HttpClient calls --------------------- *)

\* new HttpClient('http://localhost:3000', 10000) and the paths requested
BaseUrl == <<"http://localhost:3000">>
Paths == { <<"/auth/login">>, <<"/user/profile">> }
Methods == {"POST", "GET", "PUT"}

\* What fetch can settle with: a response with a status, its status text
\* and a body that response.json() decodes (null when it throws), or a failure
Statuses == {200, 299, 300, 401, 403, 500}
StatusText(status) ==
    CASE status \in {200, 299} -> "OK"
      [] status = 300 -> "Multiple Choices"
      [] status = 401 -> "Unauthorized"
      [] status = 403 -> "Forbidden"
      [] OTHER -> "Internal Server Error"
Bodies == { null, Some([success |-> TRUE, data |-> "test"]) }
\* The failures are a TypeError, an Error, and an object that is no AuthError
\* but has a type and a message: what request catches is unknown
FetchErrors == { [name |-> "TypeError", message |-> "Network error"],
                 [name |-> "Error", message |-> "boom"],
                 [name |-> "FetchError", type |-> "system",
                  message |-> "socket hang up"] }
FetchOutcomes ==
    { [kind |-> "response", status |-> status, statusText |-> StatusText(status),
       json |-> json] : status \in Statuses, json \in Bodies }
    \cup { [kind |-> "throw", error |-> error] : error \in FetchErrors }

\* What fetch and response.json() reject with once controller.abort() ran
AbortError == [name |-> "AbortError", message |-> "Aborted"]

\* The clock advances by at most TickMs at a time
TickMs == 5000

\* The settlement of the method for the outcome f of fetch
Settle(method, f) ==
    CASE method = "POST" -> post(f)
      [] method = "GET" -> get(f)
      [] method = "PUT" -> put(f)

\* The record of a call of HttpClient that has settled; finally has cleared
\* the timer
HttpSettled(call, timedOut, outcome) ==
    [op |-> call.op, pc |-> "done", path |-> call.path, fetched |-> call.fetched,
     elapsed |-> call.elapsed, timer |-> "cleared", received |-> call.received,
     timedOut |-> timedOut, outcome |-> outcome]

HttpPending(c) == calls[c].pc \in {"fetch", "json"}

\* post, get or put(path) runs to await fetch: the timer is set and fetch is
\* called once with the request URL
HttpStart(c, method, path) ==
    /\ Begin(c)
    /\ calls' = [calls EXCEPT ![c] =
          [op |-> method, pc |-> "fetch", path |-> path,
           fetched |-> <<RequestUrl(BaseUrl, path)>>, elapsed |-> 0,
           timer |-> "armed", received |-> null]]
    /\ UNCHANGED <<storage, userStorage, now, last, storageFailed, lastEvent,
                   lastLogin, logins>>

\* Time passes while the call is pending, not beyond the moment its timer is due
HttpTick(c) ==
    /\ HttpPending(c)
    /\ calls[c].elapsed < DefaultTimeout
    /\ calls' = [calls EXCEPT ![c].elapsed =
          IF @ + TickMs < DefaultTimeout THEN @ + TickMs ELSE DefaultTimeout]
    /\ UNCHANGED <<storage, userStorage, now, last, overlapped, storageFailed,
                   lastEvent, lastLogin, logins>>

\* await fetch(...) settles with f: request goes on to response.json() for
\* a response that is ok, and throws otherwise
HttpFetchSettles_Retries(c, f) ==
    /\ calls[c].pc = "fetch"
    /\ LET call == [calls[c] EXCEPT !.received = Some(f)]
       IN  IF f.kind = "response" /\ ResponseOk(f.status)
           THEN /\ calls' = [calls EXCEPT ![c] = [call EXCEPT !.pc = "json"]]
                /\ UNCHANGED last
           ELSE IF f.kind = "throw" /\ Len(calls[c].fetched) < 2
           THEN /\ calls' = [calls EXCEPT ![c].fetched = Append(@, @[1])]
                /\ UNCHANGED last
           ELSE /\ calls' = [calls EXCEPT ![c] = Idle]
                /\ last' = HttpSettled(call, FALSE, Settle(call.op, f))
    /\ UNCHANGED <<storage, userStorage, now, overlapped, storageFailed,
                   lastEvent, lastLogin, logins>>

HttpFetchSettles(c, f) ==
    /\ calls[c].pc = "fetch"
    /\ LET call == [calls[c] EXCEPT !.received = Some(f)]
       IN  IF f.kind = "response" /\ ResponseOk(f.status)
           THEN /\ calls' = [calls EXCEPT ![c] = [call EXCEPT !.pc = "json"]]
                /\ UNCHANGED last
           ELSE /\ calls' = [calls EXCEPT ![c] = Idle]
                /\ last' = HttpSettled(call, FALSE, Settle(call.op, f))
    /\ UNCHANGED <<storage, userStorage, now, overlapped, storageFailed,
                   lastEvent, lastLogin, logins>>

\* await response.json() settles
HttpJsonSettles(c) ==
    /\ calls[c].pc = "json"
    /\ calls' = [calls EXCEPT ![c] = Idle]
    /\ last' = HttpSettled(calls[c], FALSE, Settle(calls[c].op, Unwrap(calls[c].received)))
    /\ UNCHANGED <<storage, userStorage, now, overlapped, storageFailed,
                   lastEvent, lastLogin, logins>>

\* The timer fires while the call is pending: controller.abort() makes the
\* pending fetch or response.json() reject with AbortError, which request
\* catches
HttpTimeout_NoAbort(c) ==
    /\ HttpPending(c)
    /\ calls[c].timer = "armed"
    /\ calls[c].elapsed = DefaultTimeout
    /\ calls' = [calls EXCEPT ![c].timer = "fired"]
    /\ UNCHANGED <<storage, userStorage, now, last, overlapped, storageFailed,
                   lastEvent, lastLogin, logins>>

HttpTimeout(c) ==
    /\ HttpPending(c)
    /\ calls[c].timer = "armed"
    /\ calls[c].elapsed = DefaultTimeout
    /\ calls' = [calls EXCEPT ![c] = Idle]
    /\ last' = HttpSettled(calls[c], TRUE, Rejected(handleFetchError(AbortError)))
    /\ UNCHANGED <<storage, userStorage, now, overlapped, storageFailed,
                   lastEvent, lastLogin, logins>>

\* HttpClient called by a caller that awaits each call
NextHttp ==
    \/ \E c \in Calls, method \in Methods, path \in Paths :
          Quiescent /\ HttpStart(c, method, path) /\ UNCHANGED ui
    \/ \E c \in Calls : HttpTick(c) /\ UNCHANGED ui
    \/ \E c \in Calls, f \in FetchOutcomes : HttpFetchSettles(c, f) /\ UNCHANGED ui
    \/ \E c \in Calls : HttpJsonSettles(c) /\ UNCHANGED ui
    \/ \E c \in Calls : HttpTimeout(c) /\ UNCHANGED ui

SpecHttp == Init /\ [][NextHttp]_vars

(* ------------------------------ validator calls ---------------------- *)

\* The requests given to the validator: every e-mail of at most MaxEmailLen
\* characters over EmailChars, every password of at most MaxPasswordLen
\* characters
MaxEmailLen == 5
MaxPasswordLen == 7
EmailChars == {"a", "@", ".", " "}
Emails == UNION { [1..n -> EmailChars] : n \in 0..MaxEmailLen }
Passwords == { [i \in 1..n |-> "p"] : n \in 0..MaxPasswordLen }

\* The validator is about to be called with one of the requests
InitValidator ==
    /\ storage = [k \in Keys |-> null]
    /\ userStorage = FALSE
    /\ now = 0
    /\ calls = [c \in Calls |-> Idle]
    /\ \E email \in Emails, password \in Passwords :
          last = [op |-> "validateLoginRequest", pc |-> "call",
                  request |-> [email |-> email, password |-> password]]
    /\ overlapped = FALSE
    /\ storageFailed = FALSE
    /\ lastEvent = "none"
    /\ lastLogin = null
    /\ logins = 0
    /\ ui = Mounted

\* validator.validateLoginRequest(request) returns
Validate ==
    /\ last.op = "validateLoginRequest"
    /\ last.pc = "call"
    /\ last' = [op |-> "validateLoginRequest", pc |-> "done", request |-> last.request,
                outcome |-> validateLoginRequest(last.request)]
    /\ UNCHANGED <<storage, userStorage, now, calls, overlapped, storageFailed,
                   lastEvent, lastLogin, logins>>

NextValidator == Validate /\ UNCHANGED ui

SpecValidator == InitValidator /\ [][NextValidator]_vars

(* ------------------------------ App and LoginPage -------------------- *)

\* s.trim()
RECURSIVE trimStart(_)
trimStart(s) == IF s /= <<>> /\ Head(s) = " " THEN trimStart(Tail(s)) ELSE s
RECURSIVE trimEnd(_)
trimEnd(s) ==
    IF s /= <<>> /\ s[Len(s)] = " " THEN trimEnd(SubSeq(s, 1, Len(s) - 1)) ELSE s
trim(s) == trimEnd(trimStart(s))

\* What the user has typed into the form when the button is pressed
Forms ==
    { [email |-> ValidEmailA \o <<" ">>, password |-> LongPassword],
      [email |-> ValidEmailA, password |-> ShortPassword],
      [email |-> <<" ">>, password |-> LongPassword] }

isLoginButtonEnabled(form, isLoading) ==
    Len(trim(form.email)) > 0 /\ Len(form.password) > 0 /\ ~isLoading

\* The tokens and the users a former run of the application has left
FormerTokens == { null, Some(<<"test-token-123">>) }
FormerUsers == { null, Some(JSONstringify(MappedUser(Unwrap(RemoteUser)))) }

\* The application has been launched: App is rendered, its effect has called
\* initializeApp, which awaits authService.isAuthenticated()
InitApp ==
    /\ \E token \in FormerTokens, user \in FormerUsers :
          storage = [k \in Keys |-> IF k = TOKEN_KEY THEN token ELSE user]
    /\ userStorage = TRUE
    /\ now = 0
    /\ calls = [c \in Calls |-> IF c = 1 THEN [op |-> "isAuthenticated", pc |-> "getToken"]
                                 ELSE Idle]
    /\ last = Idle
    /\ overlapped = FALSE
    /\ storageFailed = FALSE
    /\ lastEvent = "none"
    /\ lastLogin = null
    /\ logins = 0
    /\ ui = Mounted

\* LoginPage is mounted anew when App renders it
Show(navigationState, lastAction) ==
    [navigationState |-> navigationState, isLoading |-> FALSE, error |-> null,
     alert |-> null, lastAction |-> lastAction]

\* initializeApp is resumed: setNavigationState(isAuthenticated ? 'home' :
\* 'login'), and 'login' in the catch
InitializeAppSettles_FailOpen(c) ==
    /\ calls[c].op = "isAuthenticated"
    /\ IsAuthenticatedGetToken(c)
    /\ ui' = Show("home", "initializeApp")

InitializeAppSettles(c) ==
    /\ calls[c].op = "isAuthenticated"
    /\ IsAuthenticatedGetToken(c)
    /\ ui' = Show(IF last'.outcome.status = "resolved" /\ last'.outcome.value
                  THEN "home" ELSE "login", "initializeApp")

\* variant of LoginFailed: the finally of handleLogin does not run
LoginFailed_KeepsLoading(err) ==
    [ui EXCEPT !.error = Some(err),
               !.alert = Some(err.message),
               !.lastAction = "loginFailed"]

\* The catch and the finally of handleLogin for the error err
LoginFailed(err) ==
    [ui EXCEPT !.isLoading = FALSE,
               !.error = Some(err),
               !.alert = Some(err.message),
               !.lastAction = "loginFailed"]

\* handleLogin is resumed after await authService.login(credentials): if the
\* call in slot c settles in this step, onLoginSuccess() when it resolved,
\* the catch when it threw
HandleLoginResumed_AlwaysSucceeds(c) ==
    ui' = IF calls'[c].pc /= "idle" THEN ui ELSE Show("home", "loginSuccess")

HandleLoginResumed(c) ==
    ui' = IF calls'[c].pc /= "idle" THEN ui
          ELSE IF last'.outcome.status = "resolved" THEN Show("home", "loginSuccess")
          ELSE LoginFailed(last'.outcome.error)

\* variant of HandleLogin: neither the guard of handleLogin nor the disabled
\* button looks at isLoading
HandleLogin_Unguarded(c, form, t) ==
    /\ ui.navigationState = "login"
    /\ isLoginButtonEnabled(form, FALSE)
    /\ LoginStart(c, [email |-> trim(form.email), password |-> form.password], t)
    /\ IF calls'[c].pc = "idle"
       THEN ui' = LoginFailed(last'.outcome.error)
       ELSE ui' = [ui EXCEPT !.isLoading = TRUE, !.error = null,
                             !.lastAction = "handleLogin"]

\* The button of LoginPage is pressed: handleLogin runs to await
\* authService.login(credentials), which throws at once for invalid credentials
HandleLogin(c, form, t) ==
    /\ ui.navigationState = "login"
    /\ isLoginButtonEnabled(form, ui.isLoading)
    /\ LoginStart(c, [email |-> trim(form.email), password |-> form.password], t)
    /\ IF calls'[c].pc = "idle"
       THEN ui' = LoginFailed(last'.outcome.error)
       ELSE ui' = [ui EXCEPT !.isLoading = TRUE, !.error = null,
                             !.lastAction = "handleLogin"]

HandleLoginSetToken(c) == LoginSetToken(c) /\ HandleLoginResumed(c)
HandleLoginSetUser(c) == LoginSetUser(c) /\ HandleLoginResumed(c)

\* The logout button of HomeScreen is pressed: authService.logout() is
\* called, not awaited, and setNavigationState('login')
HandleLogout(c) ==
    /\ ui.navigationState = "home"
    /\ LogoutStart(c)
    /\ ui' = Show("login", "handleLogout")

\* The promise of logout settles; nobody waits for it
LogoutSettles(c) == LogoutRemoveToken(c) /\ UNCHANGED ui

NextApp ==
    \/ \E c \in Calls : InitializeAppSettles(c)
    \/ \E c \in Calls, form \in Forms, t \in 0..MaxTime : HandleLogin(c, form, t)
    \/ \E c \in Calls : HandleLoginSetToken(c)
    \/ \E c \in Calls : HandleLoginSetUser(c)
    \/ \E c \in Calls : HandleLogout(c)
    \/ \E c \in Calls : LogoutSettles(c)

SpecApp == InitApp /\ [][NextApp]_vars

\* AsyncStorage settles the read of the token: initializeApp is resumed
SpecAppFair ==
    /\ SpecApp
    /\ \A c \in Calls : WF_vars(InitializeAppSettles(c))

\* AsyncStorage settles every operation it was given: the login that
\* handleLogin awaits is resumed, and with it handleLogin
SpecAppLive ==
    /\ SpecAppFair
    /\ \A c \in Calls : /\ WF_vars(HandleLoginSetToken(c))
                        /\ WF_vars(HandleLoginSetUser(c))

(* ------------------------------ specification ------------------------- *)

Next ==
    \/ \E token \in SeedTokens : Seed(token) /\ UNCHANGED ui
    \/ \E c \in Calls, credentials \in Credentials, t \in 0..MaxTime :
          LoginStart(c, credentials, t) /\ UNCHANGED ui
    \/ \E c \in Calls : LoginSetToken(c) /\ UNCHANGED ui
    \/ \E c \in Calls : LoginSetUser(c) /\ UNCHANGED ui
    \/ \E c \in Calls : LogoutStart(c) /\ UNCHANGED ui
    \/ \E c \in Calls : LogoutRemoveToken(c) /\ UNCHANGED ui
    \/ \E c \in Calls : IsAuthenticatedStart(c) /\ UNCHANGED ui
    \/ \E c \in Calls : IsAuthenticatedGetToken(c) /\ UNCHANGED ui
    \/ \E c \in Calls : GetTokenStart(c) /\ UNCHANGED ui
    \/ \E c \in Calls : GetTokenGetToken(c) /\ UNCHANGED ui

Spec == Init /\ [][Next]_vars

\* The calls are serialised, as by a caller that awaits each call before it
\* makes the next: a call, and the external writer, start when none is in flight
NextSeq ==
    \/ \E token \in SeedTokens : Quiescent /\ Seed(token) /\ UNCHANGED ui
    \/ \E c \in Calls, credentials \in Credentials, t \in 0..MaxTime :
          Quiescent /\ LoginStart(c, credentials, t) /\ UNCHANGED ui
    \/ \E c \in Calls : LoginSetToken(c) /\ UNCHANGED ui
    \/ \E c \in Calls : LoginSetUser(c) /\ UNCHANGED ui
    \/ \E c \in Calls : Quiescent /\ LogoutStart(c) /\ UNCHANGED ui
    \/ \E c \in Calls : LogoutRemoveToken(c) /\ UNCHANGED ui
    \/ \E c \in Calls : Quiescent /\ IsAuthenticatedStart(c) /\ UNCHANGED ui
    \/ \E c \in Calls : IsAuthenticatedGetToken(c) /\ UNCHANGED ui
    \/ \E c \in Calls : Quiescent /\ GetTokenStart(c) /\ UNCHANGED ui
    \/ \E c \in Calls : GetTokenGetToken(c) /\ UNCHANGED ui

SpecSeq == Init /\ [][NextSeq]_vars

\* Logins that overlap: login is called while logins are in flight, by
\* callers that do not wait for one another, with credentials that pass the
\* validation
OverlapCredentials == { CredentialsOk, CredentialsPartial }

NextOverlap ==
    \/ \E c \in Calls, credentials \in OverlapCredentials, t \in 0..MaxTime :
          LoginStart(c, credentials, t) /\ UNCHANGED ui
    \/ \E c \in Calls : LoginSetToken(c) /\ UNCHANGED ui
    \/ \E c \in Calls : LoginSetUser(c) /\ UNCHANGED ui

SpecOverlap == Init /\ [][NextOverlap]_vars

\* AsyncStorage settles every operation it was given: a login that waits for
\* a store is resumed
SpecSeqFair ==
    /\ SpecSeq
    /\ \A c \in Calls : /\ WF_vars(LoginSetToken(c) /\ UNCHANGED ui)
                        /\ WF_vars(LoginSetUser(c) /\ UNCHANGED ui)

(* ------------------------------ properties --------------------------- *)

\* The call that settled last is a login
LoginSettledLast == last.op = "login"
\* ... whose credentials the validator rejects / accepts
RejectedByValidator == LoginSettledLast /\ validateLoginRequest(last.credentials) /= null
AcceptedByValidator == LoginSettledLast /\ validateLoginRequest(last.credentials) = null

\* What Transport's post gives for the credentials of the login that settled last
TransportResult == post(RemoteFetch(last.credentials))

\* No call is in flight and none has overlapped another
Serial == Quiescent /\ ~overlapped

\* C1: a login whose credentials the validator rejects fails with exactly the
\* validator's error, has not invoked Transport and has written neither store;
\* no login with such credentials is ever waiting for a store.
C1_InvalidLoginFailsUntouched ==
    /\ RejectedByValidator =>
         /\ last.outcome = Rejected(validateLoginRequest(last.credentials))
         /\ last.posts = 0
         /\ last.wrote = {}
    /\ \A c \in Calls : calls[c].op = "login" =>
         validateLoginRequest(calls[c].credentials) = null

C1_Witness ==
    /\ RejectedByValidator
    /\ last.outcome.status = "rejected"
    /\ last.outcome.error.message = "Password must be at least 6 characters"

\* C2: a login whose credentials pass validation has invoked Transport's post
\* exactly once when it first waits for a store, and when it has settled.
C2_ValidLoginPostsOnce ==
    /\ AcceptedByValidator => last.posts = 1
    /\ \A c \in Calls : calls[c].op = "login" => calls[c].posts = 1

\* C3: when Transport's post returns a complete envelope and no store fails,
\* login resolves with the token and the mapped user of that envelope, and the
\* token slot then holds that token.
C3_ResolvesWithRemoteEnvelope ==
    ( /\ AcceptedByValidator
      /\ ~storageFailed
      /\ TransportResult.status = "resolved"
      /\ ~InvalidLoginData(LoginData(TransportResult.value)) ) =>
        /\ last.outcome =
              Resolved(LoginResponse(Unwrap(LoginData(TransportResult.value))))
        /\ (Serial /\ lastEvent = "login") =>
              getToken(storage) = Some(Unwrap(Unwrap(LoginData(TransportResult.value)).token))

\* C4: when Transport's post fails with an AuthError, login fails with that
\* same AuthError and has written no store.
C4_TransportErrorPassesThrough ==
    ( /\ AcceptedByValidator
      /\ ~storageFailed
      /\ TransportResult.status = "rejected" ) =>
        /\ last.outcome = TransportResult
        /\ last.wrote = {}

\* C5: when the envelope Transport returns lacks the token, the user
\* identifier or the user e-mail, login fails with UnknownError "Invalid login
\* response" and has written no store.
C5_MalformedEnvelopeFails ==
    ( /\ AcceptedByValidator
      /\ ~storageFailed
      /\ TransportResult.status = "resolved"
      /\ InvalidLoginData(LoginData(TransportResult.value)) ) =>
        /\ last.outcome = Rejected(InvalidLoginResponse)
        /\ last.wrote = {}

\* C6: when a login has resolved and nothing was written since, the token
\* slot holds the token that login returned; this also after earlier logins.
C6_TokenSlotHoldsLastLoginToken ==
    /\ ( /\ Serial
         /\ lastEvent = "login"
         /\ LoginSettledLast
         /\ last.outcome.status = "resolved" ) =>
            getToken(storage) = Some(last.outcome.value.token)
    /\ (Serial /\ ~storageFailed /\ lastEvent = "login") =>
            getToken(storage) = Some(Unwrap(lastLogin).token)

C6_Witness ==
    /\ Serial
    /\ logins >= 2
    /\ lastEvent = "login"
    /\ LoginSettledLast
    /\ last.outcome.status = "resolved"
    /\ last.outcome.value.token = <<"mock_token_", "1">>
    /\ getToken(storage) = Some(<<"mock_token_", "1">>)

\* C7: after serialised calls without storage failure, an isAuthenticated()
\* that has returned, the token slot being as it read it, has returned true
\* iff the last of login resolved / seed / logout resolved is a login or a seed.
C7_AuthenticatedIffSessionOpen ==
    ( /\ Serial
      /\ ~storageFailed
      /\ last.op = "isAuthenticated"
      /\ last.token = getToken(storage) ) =>
        (last.outcome.value = (lastEvent \in {"login", "seed"}))

\* C8: isAuthenticated() returns true iff the token it got from the token
\* store is not the absence marker.
C8_AuthenticatedIffTokenPresent ==
    last.op = "isAuthenticated" => (last.outcome.value = (last.token /= null))

\* C9: once logout() has completed after a login resolved, the token slot and
\* the user slot are empty and isAuthenticated() gives false.
C9_LogoutEmptiesBothStores ==
    ( /\ Serial
      /\ ~storageFailed
      /\ logins > 0
      /\ lastEvent = "logout"
      /\ last.op = "logout"
      /\ last.outcome.status = "resolved" ) =>
        /\ getToken(storage) = null
        /\ getItem(storage, USER_KEY) = null
        /\ ~isAuthenticatedValue(getToken(storage))

\* C10: with no call in flight, after serialised logins and logouts, a user in
\* the user slot comes with a token in the token slot, and both are those of
\* the login that resolved last.
C10_UserComesWithItsToken ==
    ( /\ Serial
      /\ ~storageFailed
      /\ lastEvent /= "seed"
      /\ getItem(storage, USER_KEY) /= null ) =>
        /\ lastLogin /= null
        /\ getItem(storage, USER_KEY) = Some(JSONstringify(Unwrap(lastLogin).user))
        /\ getToken(storage) = Some(Unwrap(lastLogin).token)

\* C11: a login that has settled has exactly one outcome, the {user, token}
\* it resolved with or the error it failed with; a login in flight has none
\* yet, and every login in flight settles.
C11_SettledOnce ==
    /\ LoginSettledLast =>
         \/ /\ last.outcome.status = "resolved"
            /\ DOMAIN last.outcome = {"status", "value"}
            /\ DOMAIN last.outcome.value = {"user", "token"}
         \/ /\ last.outcome.status = "rejected"
            /\ DOMAIN last.outcome = {"status", "error"}
    /\ \A c \in Calls : calls[c].op = "login" => "outcome" \notin DOMAIN calls[c]

C11_ExactlyOneOutcome ==
    /\ []C11_SettledOnce
    /\ \A c \in Calls : (calls[c].op = "login") ~> (calls[c].op = "none" /\ LoginSettledLast)

C11_Witness ==
    /\ LoginSettledLast
    /\ last.outcome.status = "resolved"
    /\ last.wrote = {TOKEN_KEY, USER_KEY}

\* C12: every error a login fails with is an AuthError whose type is one of
\* the four kinds, whatever step failed.
C12_EveryFailureIsAuthError ==
    (LoginSettledLast /\ last.outcome.status = "rejected") =>
        /\ isAuthError(last.outcome.error)
        /\ last.outcome.error.type \in AuthErrorType

\* C13: a login that passed validation and settled without having written
\* the token slot has failed with the token store's error; one that wrote the
\* token slot but not the user slot it was to write has failed with the user
\* store's error; a login that resolved has written every slot it was to write.
C13_StoreErrorPropagates ==
    AcceptedByValidator =>
        /\ TOKEN_KEY \notin last.wrote => last.outcome = Rejected(StoreTokenError)
        /\ (userStorage /\ last.wrote = {TOKEN_KEY}) =>
               last.outcome = Rejected(StoreUserError)
        /\ last.outcome.status = "resolved" =>
               last.wrote = (IF userStorage THEN {TOKEN_KEY, USER_KEY} ELSE {TOKEN_KEY})

C13_Witness ==
    /\ AcceptedByValidator
    /\ last.wrote = {TOKEN_KEY}
    /\ last.outcome = Rejected(StoreUserError)
    /\ getToken(storage) /= null

\* C14: a getToken() that returns gives exactly what the token store's get
\* returned; after serialised calls without storage failure that is the value
\* of the token slot: the token of the last login or seed, or the absence
\* marker when a logout came last or nothing was ever stored.
C14_Returned ==
    /\ last'.op = "getToken"
    /\ last'.outcome = Resolved(last'.read)
    /\ (Serial' /\ ~storageFailed') =>
        /\ last'.outcome.value = getToken(storage)
        /\ lastEvent = "login" => last'.outcome.value = Some(Unwrap(lastLogin).token)
        /\ lastEvent = "seed" => last'.outcome.value \in {Some(t) : t \in SeedTokens}
        /\ lastEvent \in {"none", "logout"} => last'.outcome.value = null

C14_GetTokenIsTokenStoreGet ==
    [][\A c \in Calls : (calls[c].op = "getToken" /\ calls'[c].op = "none") => C14_Returned]_vars

C14_Witness ==
    /\ last.op = "getToken"
    /\ Serial
    /\ ~storageFailed
    /\ lastEvent = "seed"
    /\ last.outcome.value = Some(<<>>)

\* The validator has returned
Validated == last.op = "validateLoginRequest" /\ last.pc = "done"

\* s has the shape local@domain.tld: one '@', no whitespace, a character
\* before the '@', and after it a '.' with a character on each side
ShapedEmail(s) ==
    /\ Cardinality({i \in 1..Len(s) : s[i] = "@"}) = 1
    /\ \A i \in 1..Len(s) : s[i] /= " "
    /\ s[1] /= "@"
    /\ \E d \in 1..Len(s) :
          /\ s[d] = "."
          /\ d < Len(s)
          /\ \E i \in 1..(d - 2) : s[i] = "@"

\* C15: the validator answers "Email and password are required" whenever the
\* e-mail or the password is empty, and "Invalid email format" for a non-empty
\* e-mail that has not the shape local@domain.tld, whatever the length of the
\* non-empty password.
C15_RulesInOrder ==
    Validated =>
        /\ (last.request.email = <<>> \/ last.request.password = <<>>) =>
              last.outcome = [type |-> VALIDATION_ERROR,
                              message |-> "Email and password are required"]
        /\ ( /\ last.request.email /= <<>>
             /\ last.request.password /= <<>>
             /\ ~ShapedEmail(last.request.email) ) =>
              last.outcome = [type |-> VALIDATION_ERROR,
                              message |-> "Invalid email format"]

C15_Witness ==
    /\ Validated
    /\ last.request.email = <<"a", "@", "a">>
    /\ Len(last.request.password) = 1
    /\ last.outcome /= null
    /\ last.outcome.message = "Invalid email format"

\* C16: for an e-mail of the shape local@domain.tld the validator returns
\* null when the password has 6 characters or more, and the ValidationError
\* "Password must be at least 6 characters" when the password is non-empty
\* and shorter.
C16_ShapedEmailAndPasswordLength ==
    (Validated /\ ShapedEmail(last.request.email)) =>
        /\ Len(last.request.password) >= 6 => last.outcome = null
        /\ Len(last.request.password) \in 1..5 =>
              last.outcome = [type |-> VALIDATION_ERROR,
                              message |-> "Password must be at least 6 characters"]

C16_Witness ==
    /\ Validated
    /\ last.request.email = <<"a", "@", "a", ".", "a">>
    /\ Len(last.request.password) = 6
    /\ last.outcome = null

\* The call that settled last is a call of HttpClient; what its fetch settled with
HttpSettledLast == last.op \in Methods
Answer == Unwrap(last.received)
Answered == HttpSettledLast /\ last.received /= null /\ Answer.kind = "response"
FetchFailed == HttpSettledLast /\ last.received /= null /\ Answer.kind = "throw"

\* C17 as stated: a call of post, get or put whose fetch was answered with a
\* 2xx status has resolved, with the decoded body, and fetch was called with
\* the base URL followed by the path.
C17_AnsweredOkResolves ==
    (Answered /\ ResponseOk(Answer.status)) =>
        /\ last.outcome.status = "resolved"
        /\ Answer.json /= null => last.outcome.value = Unwrap(Answer.json)
        /\ last.fetched = <<BaseUrl \o last.path>>

\* C17 amended: a call of post, get or put whose fetch was answered with a
\* 2xx status, and whose body was decoded before the timer fired, has resolved
\* with exactly the decoded body, and fetch was called with the base URL
\* followed by the path.
C17_DecodedOkResolves ==
    ( /\ Answered
      /\ ResponseOk(Answer.status)
      /\ Answer.json /= null
      /\ ~last.timedOut ) =>
        /\ last.outcome = Resolved(Unwrap(Answer.json))
        /\ last.fetched = <<BaseUrl \o last.path>>

C17_Witness ==
    /\ Answered
    /\ last.op = "PUT"
    /\ Answer.status = 299
    /\ last.outcome = Resolved([success |-> TRUE, data |-> "test"])
    /\ last.fetched = << <<"http://localhost:3000", "/user/profile">> >>

\* C18: a call answered with a non-2xx status has failed with
\* InvalidCredentials "Invalid email or password" and the status code when
\* the status is 401 or 403, and with UnknownError, the status text and the
\* status code otherwise; this is the error built inside request, as it is.
C18_NonOkMapsToAuthError ==
    (Answered /\ ~ResponseOk(Answer.status)) =>
        last.outcome = Rejected(
            IF Answer.status \in {401, 403}
            THEN [type |-> INVALID_CREDENTIALS, message |-> "Invalid email or password",
                  statusCode |-> Answer.status]
            ELSE [type |-> UNKNOWN_ERROR, message |-> Answer.statusText,
                  statusCode |-> Answer.status])

C18_Witness ==
    /\ Answered
    /\ Answer.status = 403
    /\ last.outcome.status = "rejected"
    /\ last.outcome.error.type = INVALID_CREDENTIALS
    /\ last.outcome.error.statusCode = 403

\* C19: a pending call has its timer set and has lasted no longer than the
\* timeout; a call on which the timer fired had lasted exactly the timeout and
\* has failed with NetworkError "Request timeout. Please try again."; every
\* other call settled within the timeout.
C19_BoundedByTimeout ==
    /\ \A c \in Calls : HttpPending(c) =>
          /\ calls[c].timer = "armed"
          /\ calls[c].elapsed <= DefaultTimeout
    /\ HttpSettledLast =>
          /\ last.elapsed <= DefaultTimeout
          /\ last.timedOut =>
                /\ last.elapsed = DefaultTimeout
                /\ last.outcome = Rejected([type |-> NETWORK_ERROR,
                        message |-> "Request timeout. Please try again."])

C19_Witness ==
    /\ HttpSettledLast
    /\ last.timedOut
    /\ last.received = null
    /\ last.elapsed = 10000
    /\ last.outcome.error.message = "Request timeout. Please try again."

\* C20: a call whose fetch failed with a TypeError has failed with
\* NetworkError "Network error. Please check your connection.".
C20_TypeErrorIsNetworkError ==
    (FetchFailed /\ Answer.error.name = "TypeError") =>
        last.outcome = Rejected([type |-> NETWORK_ERROR,
            message |-> "Network error. Please check your connection."])

C20_Witness ==
    /\ FetchFailed
    /\ Answer.error.name = "TypeError"
    /\ last.outcome.status = "rejected"
    /\ last.outcome.error.type = NETWORK_ERROR
    /\ ~last.timedOut

\* The fetch of the call that settled last failed otherwise than with a
\* TypeError, or was answered 2xx with a body that cannot be decoded, and the
\* timer has not fired
UnexpectedFailure ==
    /\ HttpSettledLast
    /\ ~last.timedOut
    /\ \/ FetchFailed /\ ~isAuthError(Answer.error)
                      /\ Answer.error.name \notin {"TypeError", "AbortError"}
       \/ Answered /\ ResponseOk(Answer.status) /\ Answer.json = null

\* C21 as stated: a call that failed otherwise than with an AuthError, a
\* TypeError or a timeout has failed with UnknownError and the message
\* "An unexpected error occurred." (with the full stop).
C21_UnexpectedFailureMessageWithStop ==
    UnexpectedFailure =>
        last.outcome = Rejected([type |-> UNKNOWN_ERROR,
                                 message |-> "An unexpected error occurred."])

\* C21 amended: such a call has failed with UnknownError and the message
\* "An unexpected error occurred" (no full stop).
C21_UnexpectedFailureIsUnknownError ==
    UnexpectedFailure =>
        last.outcome = Rejected([type |-> UNKNOWN_ERROR,
                                 message |-> "An unexpected error occurred"])

C21_Witness ==
    /\ UnexpectedFailure
    /\ Answered
    /\ Answer.status = 200
    /\ Answer.json = null
    /\ last.outcome.status = "rejected"
    /\ last.outcome.error.type = UNKNOWN_ERROR

\* The call that settled last is a read / a write of one of the two stores
StoreReadLast == last.op \in {"tokenStorage.getToken", "userStorage.getUser"}
StoreSetLast == last.op \in {"tokenStorage.setToken", "userStorage.setUser"}
StoreRemoveLast == last.op \in {"tokenStorage.removeToken", "userStorage.removeUser"}

\* C22: getToken of the token store and getUser of the user store always
\* resolve, with the absence marker when the read of AsyncStorage failed and,
\* for the user, when the stored value cannot be decoded; isAuthenticated()
\* and getToken() of the service always resolve.
C22_ReadsNeverFail ==
    /\ StoreReadLast =>
          /\ last.outcome.status = "resolved"
          /\ ~last.ok => last.outcome.value = null
          /\ ( /\ last.op = "userStorage.getUser"
               /\ last.before[USER_KEY] \in {Some(v) : v \in RawUserValues} ) =>
                 last.outcome.value = null
    /\ last.op \in {"isAuthenticated", "getToken"} => last.outcome.status = "resolved"

C22_Witness ==
    /\ last.op = "userStorage.getUser"
    /\ last.ok
    /\ last.before[USER_KEY] = Some(<<"{">>)
    /\ last.outcome = Resolved(null)

\* The messages the claim allows: "Failed to store <entity>" and
\* "Failed to remove <entity>" for the entities token, authentication token, user
ClaimedStoreMessages ==
    {"Failed to store token", "Failed to store authentication token", "Failed to store user"}
ClaimedRemoveMessages ==
    {"Failed to remove token", "Failed to remove authentication token", "Failed to remove user"}

\* C23 as stated: a set or remove of a store during which AsyncStorage
\* failed has failed with the message "Failed to store <entity>", respectively
\* "Failed to remove <entity>", and has left AsyncStorage as it was.
C23_WriteFailureMessages ==
    ((StoreSetLast \/ StoreRemoveLast) /\ ~last.ok) =>
        /\ last.outcome.status = "rejected"
        /\ StoreSetLast => last.outcome.error.message \in ClaimedStoreMessages
        /\ StoreRemoveLast => last.outcome.error.message \in ClaimedRemoveMessages
        /\ last.after = last.before

\* C23 amended: such a call has failed with "Failed to store authentication
\* token", "Failed to store user", "Failed to clear authentication token" or
\* "Failed to remove user", according to the method, and has left AsyncStorage
\* as it was.
C23_WriteFailureKeepsStore ==
    ((StoreSetLast \/ StoreRemoveLast) /\ ~last.ok) =>
        /\ last.outcome.status = "rejected"
        /\ last.outcome.error.message =
              ( CASE last.op = "tokenStorage.setToken" -> "Failed to store authentication token"
                  [] last.op = "userStorage.setUser" -> "Failed to store user"
                  [] last.op = "tokenStorage.removeToken" -> "Failed to clear authentication token"
                  [] last.op = "userStorage.removeUser" -> "Failed to remove user" )
        /\ last.after = last.before

C23_Witness ==
    /\ last.op = "userStorage.removeUser"
    /\ ~last.ok
    /\ last.before[USER_KEY] /= null
    /\ last.after = last.before
    /\ last.outcome = Rejected(RemoveUserError)

\* loginData lacks one of token, user identifier, e-mail, roles, language tag
\* and enabled flag
IncompleteLoginData(loginData) ==
    \/ loginData = null
    \/ Unwrap(loginData).token = null
    \/ Unwrap(loginData).user = null
    \/ \E field \in {"uuid", "email", "roles", "lang", "enabled"} :
          Unwrap(Unwrap(loginData).user)[field] = null

\* C24: when the envelope Transport returns lacks one of token, user
\* identifier, e-mail, roles, language tag and enabled flag, login fails with
\* UnknownError "Invalid login response".
C24_IncompleteEnvelopeFails ==
    ( /\ AcceptedByValidator
      /\ ~storageFailed
      /\ TransportResult.status = "resolved"
      /\ IncompleteLoginData(LoginData(TransportResult.value)) ) =>
        last.outcome = Rejected(InvalidLoginResponse)

\* p occurs in s
IsInfix(p, s) ==
    \E i \in 0..(Len(s) - Len(p)) : \A j \in 1..Len(p) : s[i + j] = p[j]

\* The strings the two slots hold: the token, and the identifier, the
\* e-mail, the roles and the language tag of the user
StoredStrings ==
    (IF getToken(storage) = null THEN {} ELSE {Unwrap(getToken(storage))})
    \cup (IF getUser(storage) = null THEN {}
          ELSE LET user == Unwrap(getUser(storage))
               IN  {user.id, user.email, user.lang}
                   \cup {user.roles[i] : i \in 1..Len(user.roles)})

\* No slot holds a password that can be submitted
NoPasswordStored ==
    \A credentials \in Credentials : \A stored \in StoredStrings :
        credentials.password /= <<>> => ~IsInfix(credentials.password, stored)

\* C25: no slot holds a submitted password, and after a login that resolved
\* the user slot holds the user the remote response returned for its
\* credentials, nothing else derived from them.
C25_CredentialsTransient ==
    /\ NoPasswordStored
    /\ ( /\ Serial
         /\ ~storageFailed
         /\ userStorage
         /\ lastEvent = "login"
         /\ LoginSettledLast
         /\ last.outcome.status = "resolved" ) =>
            /\ TransportResult.status = "resolved"
            /\ ~InvalidLoginData(LoginData(TransportResult.value))
            /\ getItem(storage, USER_KEY) = Some(JSONstringify(
                   LoginResponse(Unwrap(LoginData(TransportResult.value))).user))

\* C26: a login waits for the user store only when one is configured and
\* after it has written the token slot; it has written the user slot only
\* after the token slot; without a user store it resolves having written the
\* token slot alone.
C26_TokenBeforeUser ==
    /\ \A c \in Calls : calls[c].op = "login" =>
          /\ calls[c].pc = "setToken" => calls[c].wrote = {}
          /\ calls[c].pc = "setUser" => (userStorage /\ calls[c].wrote = {TOKEN_KEY})
    /\ LoginSettledLast =>
          /\ USER_KEY \in last.wrote => (userStorage /\ TOKEN_KEY \in last.wrote)
          /\ (last.outcome.status = "resolved" /\ ~userStorage) =>
                last.wrote = {TOKEN_KEY}

C26_Witness ==
    /\ ~userStorage
    /\ LoginSettledLast
    /\ last.outcome.status = "resolved"
    /\ last.wrote = {TOKEN_KEY}
    /\ getItem(storage, USER_KEY) = null

\* C27: a call of post, get or put has called fetch exactly once, while it
\* is pending and when it has settled, however it settled.
C27_OneOutboundCall ==
    /\ \A c \in Calls : HttpPending(c) => Len(calls[c].fetched) = 1
    /\ HttpSettledLast => Len(last.fetched) = 1

C27_Witness ==
    /\ FetchFailed
    /\ Answer.error.name = "Error"
    /\ last.outcome.status = "rejected"
    /\ Len(last.fetched) = 1

\* isAuthenticated() has just returned true in this step
ReturnedTrue ==
    /\ last'.op = "isAuthenticated"
    /\ last'.outcome.status = "resolved"
    /\ last'.outcome.value

\* C28: App leaves 'splash' in the step in which isAuthenticated() settles,
\* for 'home' iff it returned true and for 'login' otherwise; while it shows
\* 'splash' that call is in flight; it never shows 'splash' again, and it
\* does leave it.
C28_LeavesSplashOnce ==
    /\ [](ui.navigationState = "splash" =>
            \E c \in Calls : calls[c].op = "isAuthenticated")
    /\ [][ (ui.navigationState = "splash" /\ ui'.navigationState /= "splash") =>
             /\ \E c \in Calls : calls[c].op = "isAuthenticated" /\ calls'[c].op = "none"
             /\ ui'.navigationState = (IF ReturnedTrue THEN "home" ELSE "login") ]_vars
    /\ [][ ui.navigationState /= "splash" => ui'.navigationState /= "splash" ]_vars
    /\ <>(ui.navigationState /= "splash")

C28_Witness ==
    /\ ui.navigationState = "home"
    /\ ui.lastAction = "initializeApp"
    /\ last.op = "isAuthenticated"
    /\ last.outcome = Resolved(TRUE)
    /\ Quiescent

\* C29: whenever App shows 'login' because handleLogout ran, logout() has
\* completed and the token slot is empty.
C29_LoginSurfaceAfterLogoutCompleted ==
    (ui.navigationState = "login" /\ ui.lastAction = "handleLogout") =>
        /\ \A c \in Calls : calls[c].op /= "logout"
        /\ getToken(storage) = null

\* C30: App goes from 'login' to 'home' only in a step in which a login
\* resolves, and a step in which a login fails leaves 'login' shown.
C30_HomeOnlyAfterLoginResolved ==
    /\ [][ (ui.navigationState = "login" /\ ui'.navigationState = "home") =>
             /\ \E c \in Calls : calls[c].op = "login" /\ calls'[c].op = "none"
             /\ last'.op = "login"
             /\ last'.outcome.status = "resolved" ]_vars
    /\ [][ ( /\ last'.op = "login"
             /\ last'.outcome.status = "rejected"
             /\ \/ last' /= last
                \/ \E c \in Calls : calls[c].op = "login" /\ calls'[c].op = "none" ) =>
             /\ ui.navigationState = "login"
             /\ ui'.navigationState = "login" ]_vars

C30_Witness ==
    /\ ui.navigationState = "login"
    /\ ui.lastAction = "loginFailed"
    /\ LoginSettledLast
    /\ last.outcome = Rejected(StoreUserError)
    /\ getToken(storage) /= null

\* The slots that hold a login in flight
LoginsInFlight == { c \in Calls : calls[c].op = "login" }

\* C31: at most one login is in flight; while one is, LoginPage is loading
\* and its button is disabled whatever the form holds; and no step taken
\* while a login is in flight starts a login.
C31_FormSerialisesLogins ==
    /\ [](Cardinality(LoginsInFlight) <= 1)
    /\ [](LoginsInFlight /= {} =>
            /\ ui.navigationState = "login"
            /\ ui.isLoading
            /\ \A form \in Forms : ~isLoginButtonEnabled(form, ui.isLoading))
    /\ [][ LoginsInFlight /= {} =>
             /\ LoginsInFlight' \subseteq LoginsInFlight
             /\ now' = now ]_vars

C31_Witness ==
    /\ Cardinality(LoginsInFlight) = 1
    /\ ui.isLoading
    /\ ui.lastAction = "handleLogin"
    /\ \E c \in Calls : calls[c].pc = "idle"

\* In this step the write of the login in slot c to the slot k of AsyncStorage
\* completes
WriteCompletes(c, k) ==
    /\ calls[c].op = "login"
    /\ k \notin calls[c].wrote
    /\ IF calls'[c].op = "login" THEN k \in calls'[c].wrote
       ELSE last'.op = "login" /\ k \in last'.wrote
\* What that write stores
Written(c, k) ==
    IF k = TOKEN_KEY THEN Some(calls[c].response.token)
    ELSE Some(JSONstringify(calls[c].response.user))

\* C32: with logins that overlap, a step in which a write of a login to a
\* store completes leaves the value of that write in the store, whatever
\* the other login has written or is about to write, and every other step
\* leaves the store as it is.
C32_LastWriteWins ==
    [][ \A k \in Keys :
          /\ \A c \in Calls : WriteCompletes(c, k) => storage'[k] = Written(c, k)
          /\ (\A c \in Calls : ~WriteCompletes(c, k)) => storage'[k] = storage[k] ]_vars

\* Two logins have overlapped and resolved, and the token held is not the
\* one of the login that resolved last
C32_Witness ==
    /\ overlapped
    /\ Quiescent
    /\ logins = 2
    /\ ~storageFailed
    /\ LoginSettledLast
    /\ last.outcome.status = "resolved"
    /\ getToken(storage) /= null
    /\ getToken(storage) /= Some(last.outcome.value.token)

\* C33: when the catch of handleLogin has received an AuthError, LoginPage
\* shows its message; for a ValidationError no alert has been raised, and for
\* each other kind an alert with that message has.
C33_ValidationErrorInlineOnly ==
    (ui.lastAction = "loginFailed" /\ isAuthError(Unwrap(ui.error))) =>
        LET err == Unwrap(ui.error)
        IN  IF err.type = VALIDATION_ERROR
            THEN ui.alert = null
            ELSE ui.alert = Some(err.message)

\* C34: a login that has failed has completed no write: neither the token
\* slot nor the user slot was given a value by it.
C34_FailedLoginWritesNothing ==
    (LoginSettledLast /\ last.outcome.status = "rejected") => last.wrote = {}

\* C35: whenever App shows 'home' and neither a login nor a logout is in
\* flight, the token slot holds a token.
C35_HomeHoldsToken ==
    ( /\ ui.navigationState = "home"
      /\ \A c \in Calls : calls[c].op \notin {"login", "logout"} ) =>
        getToken(storage) /= null

\* The stores hold the token and the user of the response r
StoresHold(store, r) ==
    /\ getToken(store) = Some(r.token)
    /\ getItem(store, USER_KEY) = Some(JSONstringify(r.user))

\* C36: in a step in which the second of two overlapping logins resolves,
\* no store operation having failed and nothing being left in flight, the
\* stores hold the token and the user of one of the two responses.
C36_TokenAndUserOfOneLogin ==
    [][ ( /\ logins = 1 /\ logins' = 2
          /\ overlapped'
          /\ Quiescent'
          /\ userStorage
          /\ ~storageFailed' ) =>
          \/ StoresHold(storage', Unwrap(lastLogin))
          \/ StoresHold(storage', Unwrap(lastLogin')) ]_vars

\* C37: a call of post, get or put that has failed has failed with an
\* AuthError whose type is one of the four of AuthErrorType.
C37_FailureKindIsKnown ==
    (HttpSettledLast /\ last.outcome.status = "rejected") =>
        /\ isAuthError(last.outcome.error)
        /\ last.outcome.error.type \in AuthErrorType

\* C38: LoginPage is loading for as long as a login is in flight, it stops
\* loading only in a step in which that login settles, and whenever it is
\* loading it later is not.
C38_LoadingCleared ==
    /\ [](LoginsInFlight /= {} => ui.isLoading)
    /\ [][ (ui.isLoading /\ ~ui'.isLoading) =>
             /\ LoginsInFlight /= {}
             /\ LoginsInFlight' = {}
             /\ last'.op = "login" ]_vars
    /\ (ui.isLoading ~> ~ui.isLoading)

C38_Witness ==
    /\ ~ui.isLoading
    /\ ui.navigationState = "login"
    /\ ui.lastAction = "loginFailed"
    /\ LoginSettledLast
    /\ last.outcome = Rejected(StoreTokenError)
    /\ LoginsInFlight = {}

====
